---- MODULE Spec2Model ----
(***************************************************************************)
(* Model of the MPIPE link-layer session of otplatform/cc430/              *)
(* mpipe_CC430_i2c.c: the session structure `mpipe`, the owner calls       *)
(* mpipe_txndef / mpipe_rxndef / mpipe_wait, the two interrupt handlers    *)
(* mpipe_dma_isr / mpipe_uart_isr and the dispatch mpipe_isr they share.   *)
(*                                                                         *)
(* Interrupt handlers run to completion (no nesting), so each handler is   *)
(* one action, nested calls of mpipe_txndef / mpipe_rxndef included.       *)
(* Buffers are byte sequences; C offset i is TLA+ index i + 1.             *)
(***************************************************************************)
EXTENDS Integers, Sequences, FiniteSets, TLC

\* ------------------------------------------------------------- bounds --
\* largest payload_length (header byte 2) of a frame of the owner or the peer
MaxPayload == 1
\* number of data transfers the owner may have accepted (caps the sequence counter)
MaxCalls == 2

\* ---------------------------------------------------------- constants --
MPIPE_FOOTERBYTES == 4
\* NDEF header length, the "+ 6" of mpipe_txndef and the pktlen of mpipe_rxndef
HeaderBytes == 6
\* size of mpipe.ackbuf and of the first bulk receive of mpipe_rxndef
AckBytes == 10
\* the NACK value of the acknowledgment's status byte
NackValue == 127
\* the NDEF message flags of an acknowledgment
AckFlags == 221
\* ot_u16 arithmetic of Twobytes.ushort
Mod16 == 65536

\* mpipe_state (mpipe.h), in the order the dispatch relies on for state++
MPIPE_Idle       == 0
MPIPE_RxHeader   == 1
MPIPE_RxPayload  == 2
MPIPE_TxAck_Wait == 3
MPIPE_TxAck_Done == 4
MPIPE_Tx_Wait    == 5
MPIPE_Tx_Done    == 6
MPIPE_RxAck      == 7

\* mpipe_priority (mpipe.h)
MPIPE_Low       == "Low"
MPIPE_Broadcast == "Broadcast"
MPIPE_Ack       == "Ack"

\* the kinds an owner passes: the acknowledgment kind is issued by the dispatch
DataKinds == {MPIPE_Low, MPIPE_Broadcast}

\* the owner's frame buffers, and the session's own ackbuf
BufIds  == {"b1", "b2"}
ACKBUF  == "ackbuf"
NULLBUF == "null"

BufLen == HeaderBytes + MaxPayload + MPIPE_FOOTERBYTES

VARIABLES
    mpipe,   \* the mpipe_struct: state, sequence, pktbuf, pktlen, priority
    mem,     \* the bytes of every buffer, mpipe.ackbuf included
    dma,     \* the MPIPE_DMA channel: enabled, direction, address, size
    uart,    \* the transceiver: open (UCSWRST clear), txie (IE = UCTXIE)
    fg,      \* the foreground caller: running, or inside mpipe_wait
    ret,     \* the value the last action returned to the owner, if it returned one
    iret,    \* the values the nested calls of the last interrupt returned
    fired,   \* the signals the last action fired, in order
    last,    \* the last action taken
    cyc,     \* the transfer cycle in progress since the last accepted call
    ncall,   \* data transfers accepted so far
    pair     \* two nodes back to back: node A, node B and the line between them

node == <<mpipe, mem, dma, uart, fg, ret, iret, fired, last, cyc, ncall>>

vars == <<mpipe, mem, dma, uart, fg, ret, iret, fired, last, cyc, ncall, pair>>

\* --------------------------------------------------------------- bytes --
Get(buf, i) == buf[i + 1]

Put(buf, i, v) == [buf EXCEPT ![i + 1] = v]

\* the block transfer of d to buf starting at offset off
PutBlock(buf, off, d) ==
    [i \in 1..Len(buf) |->
        IF i > off /\ i <= off + Len(d) THEN d[i - off] ELSE buf[i]]

Zeros(n) == [i \in 1..n |-> 0]

Pad(s, n) == s \o Zeros(n - Len(s))

\* Twobytes: ubyte[UPPER] is the high byte, ubyte[LOWER] the low byte
Upper(x) == x \div 256

Lower(x) == x % 256

\* ------------------------------------------------------------ checksum --
RECURSIVE XorN(_, _, _)
XorN(a, b, n) ==
    IF n = 0 THEN 0
    ELSE (((a % 2) + (b % 2)) % 2) + 2 * XorN(a \div 2, b \div 2, n - 1)

RECURSIVE CrcShift(_, _)
CrcShift(crc, n) ==
    IF n = 0 THEN crc
    ELSE CrcShift(IF crc >= 32768 THEN XorN((crc * 2) % Mod16, 4129, 16)
                  ELSE (crc * 2) % Mod16, n - 1)

CrcTable == [i \in 0..255 |-> CrcShift(i * 256, 8)]

CrcByte(crc, b) == XorN((crc % 256) * 256, CrcTable[XorN(crc \div 256, b, 8)], 16)

\* platform_crc_block(data, len): CRC16 over data[0..len-1]; 0 on a block
\* that ends with its own CRC
RECURSIVE platform_crc_block(_, _)
platform_crc_block(data, len) ==
    IF len = 0 THEN 65535
    ELSE CrcByte(platform_crc_block(data, len - 1), data[len])

\* -------------------------------------------------------------- frames --
\* faulty variant: the checksum is taken before the sequence id is written
append_footer_CrcFirst(buf, len, seq) ==
    LET c  == platform_crc_block(buf, len + 2)
        b1 == Put(Put(buf, len, Upper(seq)), len + 1, Lower(seq))
    IN  Put(Put(b1, len + 2, Upper(c)), len + 3, Lower(c))

\* add sequence id & crc to end of the datastream (mpipe_txndef)
append_footer(buf, len, seq) ==
    LET b1 == Put(Put(buf, len, Upper(seq)), len + 1, Lower(seq))
        c  == platform_crc_block(b1, len + 2)
    IN  Put(Put(b1, len + 2, Upper(c)), len + 3, Lower(c))

NdefHeader(n, status) == <<AckFlags, 0, n, 2, 0, status>>

\* a payload of n bytes
Payload(n) == [i \in 1..n |-> 64 + i]

\* a complete frame as a node running mpipe_txndef puts it on the wire
Frame(hdr, payload, seq) ==
    LET raw == hdr \o payload
    IN  append_footer(raw \o Zeros(MPIPE_FOOTERBYTES), Len(raw), seq)

\* what the owner leaves in a buffer before a send: header and payload
OwnerData(n) == Pad(NdefHeader(n, 0) \o Payload(n), BufLen)

\* the sequence ids the peer uses in its frames
PeerSeqs == {0, 65535}

\* the peer's frames: data frames of the longest payload, and acknowledgments
\* (no payload) with status ACK or NACK
PeerFrames ==
    {Frame(NdefHeader(MaxPayload, 0), Payload(MaxPayload), q) : q \in PeerSeqs}
    \cup {Frame(NdefHeader(0, st), <<>>, q) : st \in {0, NackValue}, q \in PeerSeqs}

\* a frame with one bit of its last byte flipped on the line
Corrupt(f) ==
    [f EXCEPT ![Len(f)] = IF f[Len(f)] % 2 = 0 THEN f[Len(f)] + 1 ELSE f[Len(f)] - 1]

WireFrames == PeerFrames \cup {Corrupt(f) : f \in PeerFrames}

\* the bytes a bulk receive of sz bytes to offset off can deliver: the first
\* sz bytes of a frame (off = 0), or the sz bytes that follow the header of a
\* frame and end it (off = 6)
RxData(off, sz) ==
    IF off = 0
    THEN {SubSeq(f, 1, sz) : f \in {g \in WireFrames : Len(g) >= sz}}
    ELSE {SubSeq(f, off + 1, Len(f)) : f \in {g \in WireFrames : Len(g) = off + sz}}

\* ------------------------------------------------------ the operations --
\* The operations work on a record w of the program state: mpipe, mem, dma,
\* uart, the signals fired so far (sig) and the values returned so far (rets).

\* faulty variant: the busy check knows the sending phases only
TxBusy_SendingOnly(w, data_priority) ==
    data_priority # MPIPE_Ack /\ w.mpipe.state >= MPIPE_Tx_Wait

\* mpipe_txndef: a data kind is refused unless the session is idle
TxBusy(w, data_priority) ==
    data_priority # MPIPE_Ack /\ w.mpipe.state # MPIPE_Idle

\* faulty variant: the length is recorded after the footer was added
TxRecord_WithFooter(m, data, data_length, data_priority) ==
    IF data_priority # MPIPE_Ack
    THEN [m EXCEPT !.priority = data_priority, !.pktbuf = data,
                   !.pktlen = data_length + MPIPE_FOOTERBYTES]
    ELSE m

\* mpipe_txndef: the bookkeeping of a main (non-acknowledgment) transfer
TxRecord(m, data, data_length, data_priority) ==
    IF data_priority # MPIPE_Ack
    THEN [m EXCEPT !.priority = data_priority, !.pktbuf = data, !.pktlen = data_length]
    ELSE m

mpipe_txndef(w, data, data_priority) ==
    LET data_length == Get(w.mem[data], 2) + HeaderBytes
    IN  IF TxBusy(w, data_priority)
        THEN [w EXCEPT !.rets = Append(@, -1)]
        ELSE LET m1 == TxRecord(w.mpipe, data, data_length, data_priority)
                 m2 == [m1 EXCEPT !.state = MPIPE_Tx_Wait]
             IN  [w EXCEPT
                    !.mpipe = m2,
                    !.mem[data] = append_footer(@, data_length, m2.sequence),
                    !.dma = [en |-> TRUE, dir |-> "tx", buf |-> data, off |-> 0,
                             sz |-> data_length + MPIPE_FOOTERBYTES],
                    !.uart.open = TRUE,
                    !.rets = Append(@, data_length + MPIPE_FOOTERBYTES)]

\* faulty variant: a receive is refused from the moment one is accepted
RxBusy_Listening(w, data_priority) ==
    data_priority # MPIPE_Ack /\ (w.mpipe.state # MPIPE_Idle \/ w.dma.en)

\* mpipe_rxndef: a data kind is refused unless the session is idle
RxBusy(w, data_priority) ==
    data_priority # MPIPE_Ack /\ w.mpipe.state # MPIPE_Idle

\* faulty variant: the bookkeeping is done for an acknowledgment receive too
RxRecord_Always(m, data, data_priority) ==
    [m EXCEPT !.priority = IF data_priority = MPIPE_Ack THEN @ ELSE data_priority,
              !.pktbuf = data, !.pktlen = HeaderBytes]

\* mpipe_rxndef: the bookkeeping of a main (non-acknowledgment) transfer
RxRecord(m, data, data_priority) ==
    IF data_priority # MPIPE_Ack
    THEN [m EXCEPT !.priority = data_priority, !.pktbuf = data, !.pktlen = HeaderBytes]
    ELSE m

mpipe_rxndef(w, data, data_priority) ==
    IF RxBusy(w, data_priority)
    THEN [w EXCEPT !.rets = Append(@, -1)]
    ELSE LET m1 == RxRecord(w.mpipe, data, data_priority)
         IN  [w EXCEPT
                !.mpipe = [m1 EXCEPT !.state = MPIPE_Idle],
                !.dma = [en |-> TRUE, dir |-> "rx", buf |-> data, off |-> 0,
                         sz |-> AckBytes],
                !.uart.open = TRUE,
                !.rets = Append(@, 0)]

\* faulty variant: the receive-complete sequence keeps the priority
sub_rxdone_KeepsPriority(w) ==
    [w EXCEPT !.uart.open = FALSE,
              !.mpipe.state = MPIPE_Idle,
              !.sig = Append(@, "rxdone")]

sub_rxdone(w) ==
    [w EXCEPT !.uart.open = FALSE,
              !.mpipe.state = MPIPE_Idle,
              !.mpipe.priority = MPIPE_Low,
              !.sig = Append(@, "rxdone")]

\* faulty variant: the increment without the 16-bit wrap
SeqIncrement_NoWrap(seq) == seq + 1

\* mpipe.sequence.ushort++
SeqIncrement(seq) == (seq + 1) % Mod16

\* faulty variant: the send-complete sequence without the increment
sub_txdone_NoIncrement(w) ==
    [w EXCEPT !.uart.open = FALSE,
              !.mpipe.state = MPIPE_Idle,
              !.mpipe.priority = MPIPE_Low,
              !.sig = Append(@, "txdone")]

sub_txdone(w) ==
    [w EXCEPT !.uart.open = FALSE,
              !.mpipe.sequence = SeqIncrement(@),
              !.mpipe.state = MPIPE_Idle,
              !.mpipe.priority = MPIPE_Low,
              !.sig = Append(@, "txdone")]

\* ------------------------------------------------- mpipe_isr, by case --
\* case MPIPE_RxHeader: the length of the rest, and the bulk receive for it
isr_RxHeader(w) ==
    LET len == w.mpipe.pktlen + Get(w.mem[w.mpipe.pktbuf], 2) + MPIPE_FOOTERBYTES
    IN  [w EXCEPT !.mpipe.state = MPIPE_RxPayload,
                  !.mpipe.pktlen = len,
                  !.dma = [en |-> TRUE, dir |-> "rx", buf |-> w.mpipe.pktbuf,
                           off |-> HeaderBytes, sz |-> len - HeaderBytes]]

\* case MPIPE_Idle: "note, case doesn't break!"
isr_Idle(w) == isr_RxHeader([w EXCEPT !.sig = Append(@, "rxdetect")])

\* faulty variant: the two values of the conditional swapped
AckStatus_Swapped(crc) == IF crc # 0 THEN 0 ELSE NackValue

\* mpipe.ackbuf[5] = (platform_crc_block(...)) ? 0x7F : 0
AckStatus(crc) == IF crc # 0 THEN NackValue ELSE 0

\* faulty variant: the sequence is read from the checksum field
RxSequence_FromChecksum(pkt, pktlen) ==
    Get(pkt, pktlen - 2) * 256 + Get(pkt, pktlen - 1)

\* Copy RX'ed seq into ACK
RxSequence(pkt, pktlen) ==
    Get(pkt, pktlen - MPIPE_FOOTERBYTES) * 256 + Get(pkt, pktlen - MPIPE_FOOTERBYTES + 1)

isr_RxPayload(w) ==
    IF w.mpipe.priority # MPIPE_Broadcast
    THEN LET pkt    == w.mem[w.mpipe.pktbuf]
             status == AckStatus(platform_crc_block(pkt, w.mpipe.pktlen))
             w1     == [w EXCEPT
                          !.mpipe.sequence = RxSequence(pkt, w.mpipe.pktlen),
                          !.mem[ACKBUF] = PutBlock(@, 0, NdefHeader(0, status))]
             w2     == mpipe_txndef(w1, ACKBUF, MPIPE_Ack)
         IN  [w2 EXCEPT !.mpipe.state = MPIPE_TxAck_Wait]
    ELSE sub_rxdone(w)

isr_TxAck_Wait(w) == [w EXCEPT !.uart.txie = TRUE]

\* faulty variant: the receive completes whatever acknowledgment was sent
isr_TxAck_Done_AlwaysDone(w) == sub_rxdone([w EXCEPT !.uart.txie = FALSE])

isr_TxAck_Done(w) ==
    LET w1 == [w EXCEPT !.uart.txie = FALSE]
    IN  IF Get(w1.mem[ACKBUF], 5) # 0
        THEN LET w2 == mpipe_rxndef(w1, w1.mpipe.pktbuf, w1.mpipe.priority)
             IN  [w2 EXCEPT !.mpipe.state = MPIPE_RxHeader]
        ELSE sub_rxdone(w1)

isr_Tx_Wait(w) == [w EXCEPT !.uart.txie = TRUE]

\* faulty variant: the acknowledgment is awaited after a broadcast too
isr_Tx_Done_AlwaysAck(w) ==
    LET w2 == mpipe_rxndef([w EXCEPT !.uart.txie = FALSE], ACKBUF, MPIPE_Ack)
    IN  [w2 EXCEPT !.mpipe.state = MPIPE_RxAck]

\* faulty variant: the dispatch ends between the two assignments of the state,
\* at the Idle that mpipe_rxndef sets before RxAck is set
isr_Tx_Done_LeavesIdle(w) ==
    LET w1 == [w EXCEPT !.uart.txie = FALSE]
    IN  IF w1.mpipe.priority # MPIPE_Broadcast
        THEN mpipe_rxndef(w1, ACKBUF, MPIPE_Ack)
        ELSE sub_txdone(w1)

isr_Tx_Done(w) ==
    LET w1 == [w EXCEPT !.uart.txie = FALSE]
    IN  IF w1.mpipe.priority # MPIPE_Broadcast
        THEN LET w2 == mpipe_rxndef(w1, ACKBUF, MPIPE_Ack)
             IN  [w2 EXCEPT !.mpipe.state = MPIPE_RxAck]
        ELSE sub_txdone(w1)

\* faulty variant: the sender reads the status byte of the acknowledgment
isr_RxAck_ReadsStatus(w) ==
    IF platform_crc_block(w.mem[ACKBUF], AckBytes) # 0 \/ Get(w.mem[ACKBUF], 5) # 0
    THEN mpipe_txndef(w, w.mpipe.pktbuf, w.mpipe.priority)
    ELSE sub_txdone(w)

isr_RxAck(w) ==
    IF platform_crc_block(w.mem[ACKBUF], AckBytes) # 0
    THEN mpipe_txndef(w, w.mpipe.pktbuf, w.mpipe.priority)
    ELSE sub_txdone(w)

mpipe_isr(w) ==
    CASE w.mpipe.state = MPIPE_Idle       -> isr_Idle(w)
      [] w.mpipe.state = MPIPE_RxHeader   -> isr_RxHeader(w)
      [] w.mpipe.state = MPIPE_RxPayload  -> isr_RxPayload(w)
      [] w.mpipe.state = MPIPE_TxAck_Wait -> isr_TxAck_Wait(w)
      [] w.mpipe.state = MPIPE_TxAck_Done -> isr_TxAck_Done(w)
      [] w.mpipe.state = MPIPE_Tx_Wait    -> isr_Tx_Wait(w)
      [] w.mpipe.state = MPIPE_Tx_Done    -> isr_Tx_Done(w)
      [] w.mpipe.state = MPIPE_RxAck      -> isr_RxAck(w)
      [] OTHER                            -> w

\* faulty variant: the state advances by two phases
NextPhase_Two(state) == state + 2

\* mpipe.state++ of mpipe_uart_isr
NextPhase(state) == state + 1

uart_isr(w) ==
    IF w.mpipe.state = MPIPE_Tx_Wait \/ w.mpipe.state = MPIPE_TxAck_Wait
    THEN [w EXCEPT !.mpipe.state = NextPhase(@)]
    ELSE mpipe_isr(w)

\* ------------------------------------------------------------- actions --
W == [mpipe |-> mpipe, mem |-> mem, dma |-> dma, uart |-> uart,
      sig |-> <<>>, rets |-> <<>>]

Count(s, x) == Cardinality({i \in 1..Len(s) : s[i] = x})

\* the cycle record after an interrupt that took the program from W to w
CycStep(w) ==
    [cyc EXCEPT
       !.path = IF w.mpipe.state # mpipe.state THEN Append(@, w.mpipe.state) ELSE @,
       !.ntx  = @ + Count(w.sig, "txdone"),
       !.nrx  = @ + Count(w.sig, "rxdone")]

\* a node after mpipe_init, as a record the operations work on
NodeInit ==
    [mpipe |-> [state |-> MPIPE_Idle, sequence |-> 0, pktbuf |-> NULLBUF,
                pktlen |-> 0, priority |-> MPIPE_Low],
     mem |-> [b \in BufIds \cup {ACKBUF} |->
                CASE b = "b1" -> OwnerData(0)
                  [] b = "b2" -> OwnerData(MaxPayload)
                  [] OTHER    -> Zeros(AckBytes)],
     dma |-> [en |-> FALSE, dir |-> "rx", buf |-> NULLBUF, off |-> 0, sz |-> 0],
     uart |-> [open |-> FALSE, txie |-> FALSE],
     sig |-> <<>>, rets |-> <<>>]

Init ==
    /\ mpipe = [state |-> MPIPE_Idle, sequence |-> 0, pktbuf |-> NULLBUF,
                pktlen |-> 0, priority |-> MPIPE_Low]
    /\ mem = [b \in BufIds \cup {ACKBUF} |->
                CASE b = "b1" -> OwnerData(0)
                  [] b = "b2" -> OwnerData(MaxPayload)
                  [] OTHER    -> Zeros(AckBytes)]
    /\ dma = [en |-> FALSE, dir |-> "rx", buf |-> NULLBUF, off |-> 0, sz |-> 0]
    /\ uart = [open |-> FALSE, txie |-> FALSE]
    /\ fg = [pc |-> "run", val |-> 0]
    /\ ret = <<>>
    /\ iret = <<>>
    /\ fired = <<>>
    /\ last = "init"
    /\ cyc = [op |-> "none", prio |-> MPIPE_Low, seq0 |-> 0, path |-> <<>>,
              ntx |-> 0, nrx |-> 0]
    /\ ncall = 0
    /\ pair = [A |-> NodeInit, B |-> NodeInit,
               line |-> [from |-> "none", bytes |-> <<>>],
               calls |-> [A |-> 0, B |-> 0]]

\* the owner calls mpipe_txndef(data, blocking, data_priority)
Txndef(data, blocking, data_priority) ==
    /\ fg.pc = "run"
    /\ mpipe.state = MPIPE_Idle => ncall < MaxCalls
    /\ \E w \in {mpipe_txndef(W, data, data_priority)} : \E r \in {w.rets[1]} :
           /\ mpipe' = w.mpipe
           /\ mem' = w.mem
           /\ dma' = w.dma
           /\ uart' = w.uart
           /\ fired' = w.sig
           /\ IF r # -1 /\ blocking
              THEN fg' = [pc |-> "wait", val |-> r] /\ ret' = <<>>
              ELSE fg' = fg /\ ret' = <<r>>
           /\ ncall' = IF r # -1 THEN ncall + 1 ELSE ncall
           /\ cyc' = IF r # -1
                     THEN [op |-> "tx", prio |-> data_priority, seq0 |-> mpipe.sequence,
                           path |-> <<w.mpipe.state>>, ntx |-> 0, nrx |-> 0]
                     ELSE cyc
    /\ iret' = <<>>
    /\ last' = "txndef"
    /\ UNCHANGED pair

\* the owner calls mpipe_rxndef(data, blocking, data_priority)
Rxndef(data, blocking, data_priority) ==
    /\ fg.pc = "run"
    /\ mpipe.state = MPIPE_Idle => ncall < MaxCalls
    /\ \E w \in {mpipe_rxndef(W, data, data_priority)} : \E r \in {w.rets[1]} :
           /\ mpipe' = w.mpipe
           /\ mem' = w.mem
           /\ dma' = w.dma
           /\ uart' = w.uart
           /\ fired' = w.sig
           /\ ret' = <<r>>
           /\ cyc' = IF r # -1
                     THEN [op |-> "rx", prio |-> data_priority, seq0 |-> mpipe.sequence,
                           path |-> <<w.mpipe.state>>, ntx |-> 0, nrx |-> 0]
                     ELSE cyc
           /\ ncall' = IF r # -1 THEN ncall + 1 ELSE ncall
    /\ iret' = <<>>
    /\ last' = "rxndef"
    /\ UNCHANGED <<fg, pair>>

\* mpipe_wait returns to the blocked caller of mpipe_txndef
mpipe_wait ==
    /\ fg.pc = "wait"
    /\ mpipe.state = MPIPE_Idle
    /\ fg' = [pc |-> "run", val |-> 0]
    /\ ret' = <<fg.val>>
    /\ iret' = <<>>
    /\ fired' = <<>>
    /\ last' = "wait"
    /\ UNCHANGED <<mpipe, mem, dma, uart, cyc, ncall, pair>>

\* the bulk transfer completes: d are the bytes a receive delivered
mpipe_dma_isr(d) ==
    /\ dma.en
    /\ \E w \in {mpipe_isr([W EXCEPT !.dma.en = FALSE,
                                     !.mem[dma.buf] = IF dma.dir = "rx"
                                                      THEN PutBlock(@, dma.off, d)
                                                      ELSE @])} :
           /\ mpipe' = w.mpipe
           /\ mem' = w.mem
           /\ dma' = w.dma
           /\ uart' = w.uart
           /\ fired' = w.sig
           /\ iret' = w.rets
           /\ cyc' = CycStep(w)
    /\ last' = "dma_isr"
    /\ ret' = <<>>
    /\ UNCHANGED <<fg, ncall, pair>>

\* the transceiver's interrupt, raised while its send interrupt is enabled
mpipe_uart_isr ==
    /\ uart.txie
    /\ \E w \in {uart_isr(W)} :
           /\ mpipe' = w.mpipe
           /\ mem' = w.mem
           /\ dma' = w.dma
           /\ uart' = w.uart
           /\ fired' = w.sig
           /\ iret' = w.rets
           /\ cyc' = CycStep(w)
    /\ last' = "uart_isr"
    /\ ret' = <<>>
    /\ UNCHANGED <<fg, ncall, pair>>

OwnerSend == \E data \in BufIds, blocking \in BOOLEAN, p \in DataKinds :
                Txndef(data, blocking, p)

OwnerReceive == \E data \in BufIds, blocking \in BOOLEAN, p \in DataKinds :
                   Rxndef(data, blocking, p)

DmaComplete ==
    \E d \in (IF dma.dir = "rx" THEN RxData(dma.off, dma.sz) ELSE {<<>>}) :
       mpipe_dma_isr(d)

Next == OwnerSend \/ OwnerReceive \/ mpipe_wait \/ DmaComplete \/ mpipe_uart_isr

Spec == Init /\ [][Next]_vars

\* ------------------------------------------- two nodes back to back --
\* Node A sends non-broadcast data frames and node B receives them; both run
\* the operations above. The line carries the last frame a bulk send has put
\* on it, as sent or with one bit flipped, until the other node has taken it.
Other(n) == IF n = "A" THEN "B" ELSE "A"

\* the bytes the line delivers to a receive of sz bytes to offset off: the
\* first sz bytes of the frame on it, or the sz bytes after its header
LineData(f, off, sz) ==
    IF off = 0
    THEN (IF Len(f) >= sz THEN {SubSeq(f, 1, sz)} ELSE {})
    ELSE (IF Len(f) = off + sz THEN {SubSeq(f, off + 1, Len(f))} ELSE {})

\* node A's owner calls mpipe_txndef(data, False, MPIPE_Low)
PairSend ==
    \E data \in BufIds :
       /\ pair.A.mpipe.state = MPIPE_Idle
       /\ pair.calls.A < MaxCalls
       /\ \E w \in {mpipe_txndef(pair.A, data, MPIPE_Low)} :
             pair' = [pair EXCEPT !.A = [w EXCEPT !.rets = <<>>],
                                  !.calls.A = @ + 1]
       /\ UNCHANGED node

\* node B's owner calls mpipe_rxndef(data, False, MPIPE_Low)
PairReceive ==
    \E data \in BufIds :
       /\ pair.B.mpipe.state = MPIPE_Idle
       /\ ~pair.B.dma.en
       /\ pair.calls.B < MaxCalls
       /\ \E w \in {mpipe_rxndef(pair.B, data, MPIPE_Low)} :
             pair' = [pair EXCEPT !.B = [w EXCEPT !.rets = <<>>],
                                  !.calls.B = @ + 1]
       /\ UNCHANGED node

\* mpipe_dma_isr of node n: its bulk send has put the frame on the line, or
\* its bulk receive has taken from the line the bytes it asked for
PairDmaComplete ==
    \E n \in {"A", "B"} :
       /\ pair[n].dma.en
       /\ IF pair[n].dma.dir = "tx"
          THEN \E f \in {SubSeq(pair[n].mem[pair[n].dma.buf], 1, pair[n].dma.sz)} :
               \E g \in {f, Corrupt(f)} :
               \E w \in {mpipe_isr([pair[n] EXCEPT !.dma.en = FALSE])} :
                  pair' = [pair EXCEPT ![n] = [w EXCEPT !.rets = <<>>],
                                       !.line = [from |-> n, bytes |-> g]]
          ELSE /\ pair.line.from = Other(n)
               /\ \E d \in LineData(pair.line.bytes, pair[n].dma.off, pair[n].dma.sz) :
                  \E w \in {mpipe_isr([pair[n] EXCEPT
                                         !.dma.en = FALSE,
                                         !.mem[pair[n].dma.buf] =
                                            PutBlock(@, pair[n].dma.off, d)])} :
                     pair' = [pair EXCEPT
                                ![n] = [w EXCEPT !.rets = <<>>],
                                !.line = IF pair[n].mpipe.state
                                             \in {MPIPE_RxPayload, MPIPE_RxAck}
                                         THEN [from |-> "none", bytes |-> <<>>]
                                         ELSE @]
       /\ UNCHANGED node

\* mpipe_uart_isr of node n
PairUartIsr ==
    \E n \in {"A", "B"} :
       /\ pair[n].uart.txie
       /\ \E w \in {uart_isr(pair[n])} :
             pair' = [pair EXCEPT ![n] = [w EXCEPT !.rets = <<>>]]
       /\ UNCHANGED node

PairNext == PairSend \/ PairReceive \/ PairDmaComplete \/ PairUartIsr

PairSpec == Init /\ [][PairNext]_vars

TypeOK ==
    /\ mpipe.state \in MPIPE_Idle..MPIPE_RxAck
    /\ mpipe.sequence \in 0..(Mod16 - 1)
    /\ mpipe.pktbuf \in BufIds \cup {NULLBUF}
    /\ mpipe.priority \in DataKinds

\* -------------------------------------------------------------- claims --
OwnerArgs == BufIds \X BOOLEAN \X DataKinds

\* the total length of the frame whose header and payload are in buf
TotalLength(buf) == HeaderBytes + Get(buf, 2) + MPIPE_FOOTERBYTES

InPath(state) == \E i \in 1..Len(cyc.path) : cyc.path[i] = state

\* C1: a data-kind send issued while the session is Idle succeeds: it returns
\* the total frame length 6 + payload_length + 4 (to a blocking caller when
\* mpipe_wait lets it go), records pktbuf, pktlen and priority, and leaves the
\* session in Tx_Wait with the bulk send of the whole frame armed.
C1_SendInIdleAccepted ==
    [][\A a \in OwnerArgs :
          (mpipe.state = MPIPE_Idle /\ Txndef(a[1], a[2], a[3])) =>
             /\ mpipe'.state = MPIPE_Tx_Wait
             /\ mpipe'.pktbuf = a[1]
             /\ mpipe'.pktlen = HeaderBytes + Get(mem[a[1]], 2)
             /\ mpipe'.priority = a[3]
             /\ IF a[2] THEN fg' = [pc |-> "wait", val |-> TotalLength(mem[a[1]])]
                        ELSE ret' = <<TotalLength(mem[a[1]])>>
             /\ dma' = [en |-> TRUE, dir |-> "tx", buf |-> a[1], off |-> 0,
                        sz |-> TotalLength(mem[a[1]])]]_vars

C1_Witness ==
    /\ last = "txndef"
    /\ mpipe.state = MPIPE_Tx_Wait
    /\ mpipe.priority = MPIPE_Broadcast
    /\ mpipe.pktbuf = "b2"
    /\ ret = <<HeaderBytes + MaxPayload + MPIPE_FOOTERBYTES>>

\* C2: a data-kind send issued while the session is not Idle returns Busy (-1)
\* and changes nothing: not the session, not a byte of any buffer, not the
\* bulk-transfer engine, not the transceiver.
C2_SendWhileBusyRejected ==
    [][\A a \in OwnerArgs :
          (mpipe.state # MPIPE_Idle /\ Txndef(a[1], a[2], a[3])) =>
             /\ ret' = <<-1>>
             /\ UNCHANGED <<mpipe, mem, dma, uart, fg>>]_vars

C2_Witness ==
    /\ last = "txndef"
    /\ ret = <<-1>>
    /\ mpipe.state = MPIPE_RxAck
    /\ dma.en

\* C3: a corrupted acknowledgment (checksum of ackbuf not 0) delivered in RxAck
\* makes the dispatch retransmit the pending data frame: the bulk send of
\* pktbuf, same bytes and same length, is armed, the sequence is unchanged and
\* the state is Tx_Wait.
C3_CorruptAckRetransmits ==
    [][(/\ mpipe.state = MPIPE_RxAck
        /\ last' = "dma_isr"
        /\ platform_crc_block(mem'[ACKBUF], AckBytes) # 0) =>
          /\ mpipe'.state = MPIPE_Tx_Wait
          /\ mpipe'.sequence = mpipe.sequence
          /\ mem'[mpipe.pktbuf] = mem[mpipe.pktbuf]
          /\ dma' = [en |-> TRUE, dir |-> "tx", buf |-> mpipe.pktbuf, off |-> 0,
                     sz |-> mpipe.pktlen + MPIPE_FOOTERBYTES]]_vars

\* C4: the dispatch in TxAck_Done after a NACK (status byte of ackbuf not 0)
\* re-arms the bulk receive of the 10-byte prefix into pktbuf, resets pktlen
\* to the header length and moves to RxHeader.
C4_NackRearmsReceive ==
    [][(/\ mpipe.state = MPIPE_TxAck_Done
        /\ last' = "uart_isr"
        /\ Get(mem[ACKBUF], 5) # 0) =>
          /\ mpipe'.state = MPIPE_RxHeader
          /\ mpipe'.pktbuf = mpipe.pktbuf
          /\ mpipe'.pktlen = HeaderBytes
          /\ dma' = [en |-> TRUE, dir |-> "rx", buf |-> mpipe.pktbuf, off |-> 0,
                     sz |-> AckBytes]]_vars

\* C5 as claimed: the sequence counter changes only by +1 (mod 2^16), in the
\* send-complete sequence; no other step changes it.
C5_SequenceOnlyIncrements ==
    [][mpipe'.sequence # mpipe.sequence =>
          /\ mpipe'.sequence = (mpipe.sequence + 1) % Mod16
          /\ fired' = <<"txdone">>]_vars

\* C5 as amended: the sequence counter changes only by +1 (mod 2^16) in the
\* send-complete sequence, or in the dispatch of RxPayload for a non-broadcast
\* receive, which overwrites it with the sequence field of the received frame.
C5_SequenceChanges ==
    [][mpipe'.sequence # mpipe.sequence =>
          \/ /\ mpipe'.sequence = (mpipe.sequence + 1) % Mod16
             /\ fired' = <<"txdone">>
             /\ mpipe.state \in {MPIPE_Tx_Done, MPIPE_RxAck}
          \/ /\ mpipe.state = MPIPE_RxPayload
             /\ mpipe.priority # MPIPE_Broadcast
             /\ last' = "dma_isr"
             /\ mpipe'.state = MPIPE_TxAck_Wait
             /\ mpipe'.sequence =
                   RxSequence(mem'[mpipe.pktbuf], mpipe.pktlen)]_vars

\* a receive has overwritten a counter that sends had advanced
C5_Witness ==
    /\ last = "dma_isr"
    /\ mpipe.state = MPIPE_TxAck_Wait
    /\ cyc.op = "rx"
    /\ cyc.seq0 = 1
    /\ mpipe.sequence = 0

\* C6 as claimed: while an accepted data receive is armed and not completed,
\* every new data send or receive is refused with Busy and leaves pktbuf,
\* pktlen, priority and the bulk-transfer engine as they are.
C6_ArmedReceiveRejectsRequests ==
    [][\A a \in OwnerArgs :
          (/\ cyc.op = "rx"
           /\ dma.en
           /\ dma.dir = "rx"
           /\ (Txndef(a[1], a[2], a[3]) \/ Rxndef(a[1], a[2], a[3]))) =>
              /\ ret' = <<-1>>
              /\ UNCHANGED <<mpipe, dma>>]_vars

\* C6 as amended: a data receive that is armed and waits for its header leaves
\* the session Idle, and a new data send or receive issued then is accepted:
\* it overwrites pktbuf, pktlen and priority and re-arms the bulk-transfer
\* engine, so that the one transfer outstanding is the new one.  Once the
\* header has arrived (state not Idle) every new data send or receive is
\* refused with Busy and changes nothing.
C6_OneTransferOutstanding ==
    [][\A a \in OwnerArgs :
          (/\ cyc.op = "rx"
           /\ dma.en
           /\ dma.dir = "rx"
           /\ (Txndef(a[1], a[2], a[3]) \/ Rxndef(a[1], a[2], a[3]))) =>
              IF mpipe.state = MPIPE_Idle
              THEN /\ ret' # <<-1>>
                   /\ mpipe'.pktbuf = a[1]
                   /\ mpipe'.priority = a[3]
                   /\ mpipe'.pktlen = IF last' = "txndef"
                                      THEN HeaderBytes + Get(mem[a[1]], 2)
                                      ELSE HeaderBytes
                   /\ dma'.en
                   /\ dma'.buf = a[1]
                   /\ dma'.dir = (IF last' = "txndef" THEN "tx" ELSE "rx")
              ELSE /\ ret' = <<-1>>
                   /\ UNCHANGED <<mpipe, mem, dma, uart, fg>>]_vars

\* a second receive has replaced a receive that waited for its header: no
\* byte has arrived, and none was sent, since the first one was accepted
C6_Witness ==
    /\ last = "rxndef"
    /\ ret = <<0>>
    /\ ncall = 2
    /\ mpipe.pktbuf = "b2"
    /\ mpipe.priority = MPIPE_Broadcast
    /\ mem["b1"] = OwnerData(0)
    /\ mem["b2"] = OwnerData(MaxPayload)

\* C7: every accepted data transfer returns the session to Idle; the session
\* is moved by its two interrupts alone, so there is no state in which it
\* waits (state not Idle) with no bulk transfer armed and no transceiver
\* interrupt enabled.
C7_NoStall ==
    mpipe.state # MPIPE_Idle => (dma.en \/ uart.txie)

\* C8: once the valid acknowledgment (checksum of ackbuf 0) of a non-broadcast
\* send has been dispatched in RxAck, the state is Idle, txdone has fired once,
\* the sequence is its value before the send plus 1 modulo 2^16, and the
\* states visited are Tx_Wait, Tx_Done, RxAck, Idle in that order.
C8_AcknowledgedSend ==
    (/\ cyc.op = "tx"
     /\ cyc.prio # MPIPE_Broadcast
     /\ InPath(MPIPE_RxAck)
     /\ ~dma.en
     /\ platform_crc_block(mem[ACKBUF], AckBytes) = 0) =>
        /\ mpipe.state = MPIPE_Idle
        /\ cyc.ntx = 1
        /\ mpipe.sequence = (cyc.seq0 + 1) % Mod16
        /\ cyc.path = <<MPIPE_Tx_Wait, MPIPE_Tx_Done, MPIPE_RxAck, MPIPE_Idle>>

\* the acknowledged send that wraps the sequence from 65535 to 0
C8_Witness ==
    /\ cyc.op = "tx"
    /\ cyc.prio # MPIPE_Broadcast
    /\ InPath(MPIPE_RxAck)
    /\ fired = <<"txdone">>
    /\ platform_crc_block(mem[ACKBUF], AckBytes) = 0
    /\ cyc.seq0 = Mod16 - 1
    /\ mpipe.sequence = 0

\* C9: a broadcast send goes Tx_Wait, Tx_Done, Idle: RxAck is never entered,
\* no receive is armed during the cycle, and at completion the sequence has
\* advanced by exactly 1 and txdone has fired once.
C9_BroadcastSend ==
    (cyc.op = "tx" /\ cyc.prio = MPIPE_Broadcast) =>
        /\ ~InPath(MPIPE_RxAck)
        /\ dma.dir = "tx"
        /\ \/ cyc.path = <<MPIPE_Tx_Wait>> /\ mpipe.state = MPIPE_Tx_Wait
           \/ cyc.path = <<MPIPE_Tx_Wait, MPIPE_Tx_Done>> /\ mpipe.state = MPIPE_Tx_Done
           \/ cyc.path = <<MPIPE_Tx_Wait, MPIPE_Tx_Done, MPIPE_Idle>>
              /\ mpipe.state = MPIPE_Idle
        /\ IF mpipe.state = MPIPE_Idle
           THEN cyc.ntx = 1 /\ mpipe.sequence = (cyc.seq0 + 1) % Mod16
           ELSE cyc.ntx = 0 /\ mpipe.sequence = cyc.seq0

C9_Witness ==
    /\ cyc.op = "tx"
    /\ cyc.prio = MPIPE_Broadcast
    /\ mpipe.state = MPIPE_Idle
    /\ fired = <<"txdone">>
    /\ cyc.ntx = 1
    /\ mpipe.sequence = 1

\* C10: the dispatch in RxPayload with a non-broadcast priority sends an
\* acknowledgment whose status byte (offset 5) is 0 if the checksum of the
\* received frame over pktlen bytes is 0 and 0x7F otherwise, and leaves the
\* session in TxAck_Wait.
C10_AckStatusFollowsChecksum ==
    [][(/\ mpipe.state = MPIPE_RxPayload
        /\ mpipe.priority # MPIPE_Broadcast
        /\ last' = "dma_isr") =>
          /\ mpipe'.state = MPIPE_TxAck_Wait
          /\ Get(mem'[ACKBUF], 5) =
                (IF platform_crc_block(mem'[mpipe.pktbuf], mpipe.pktlen) = 0
                 THEN 0 ELSE NackValue)
          /\ dma' = [en |-> TRUE, dir |-> "tx", buf |-> ACKBUF, off |-> 0,
                     sz |-> AckBytes]]_vars

\* an ACK is being sent for a frame that verified, payload included
C10_Witness ==
    /\ mpipe.state = MPIPE_TxAck_Wait
    /\ last = "dma_isr"
    /\ mpipe.pktlen = HeaderBytes + MaxPayload + MPIPE_FOOTERBYTES
    /\ Get(mem[ACKBUF], 5) = 0
    /\ platform_crc_block(mem[mpipe.pktbuf], mpipe.pktlen) = 0

\* a NACK is being sent for a frame that did not verify
C10_WitnessNack ==
    /\ mpipe.state = MPIPE_TxAck_Wait
    /\ last = "dma_isr"
    /\ Get(mem[ACKBUF], 5) = NackValue
    /\ platform_crc_block(mem[mpipe.pktbuf], mpipe.pktlen) # 0

\* C11: a blocking data send that was accepted returns to its caller only
\* after its cycle has completed: whenever the foreground wait finds the state
\* Idle, the send-complete sequence has run once (txdone fired, the sequence
\* is its value at the call plus 1 modulo 2^16) and the cycle has ended in
\* Idle; the Idle that the acknowledgment receive sets before RxAck is never
\* seen by the waiting caller.
C11_BlockingSendReturnsAtCompletion ==
    (fg.pc = "wait" /\ mpipe.state = MPIPE_Idle) =>
        /\ cyc.op = "tx"
        /\ cyc.ntx = 1
        /\ mpipe.sequence = (cyc.seq0 + 1) % Mod16
        /\ cyc.path[Len(cyc.path)] = MPIPE_Idle
        /\ ~dma.en
        /\ fg.val = mpipe.pktlen + MPIPE_FOOTERBYTES

\* the blocked caller of a non-broadcast send has returned after the cycle
\* went through the acknowledgment receive
C11_Witness ==
    /\ last = "wait"
    /\ fg.pc = "run"
    /\ ret = <<HeaderBytes + MaxPayload + MPIPE_FOOTERBYTES>>
    /\ cyc.path = <<MPIPE_Tx_Wait, MPIPE_Tx_Done, MPIPE_RxAck, MPIPE_Idle>>

\* C12: the dispatch in RxPayload of a broadcast receive builds and sends no
\* acknowledgment (ackbuf untouched, no bulk transfer armed, TxAck_Wait not
\* entered), sets the state to Idle and the priority to MPIPE_Low, and fires
\* rxdone.
C12_BroadcastReceive ==
    [][(/\ mpipe.state = MPIPE_RxPayload
        /\ mpipe.priority = MPIPE_Broadcast
        /\ last' \in {"dma_isr", "uart_isr"}) =>
          /\ mpipe'.state = MPIPE_Idle
          /\ mpipe'.priority = MPIPE_Low
          /\ fired' = <<"rxdone">>
          /\ iret' = <<>>
          /\ mem'[ACKBUF] = mem[ACKBUF]
          /\ ~dma'.en
          /\ cyc'.path = <<MPIPE_Idle, MPIPE_RxPayload, MPIPE_Idle>>]_vars

C12_Witness ==
    /\ last = "dma_isr"
    /\ cyc.op = "rx"
    /\ cyc.prio = MPIPE_Broadcast
    /\ fired = <<"rxdone">>
    /\ mpipe.state = MPIPE_Idle
    /\ mpipe.pktlen = HeaderBytes + MaxPayload + MPIPE_FOOTERBYTES

\* C13: an acknowledgment-kind send (of a frame that fits its buffer) or
\* receive is accepted in every state the session can be in and leaves pktbuf, pktlen and priority as they are;
\* the two that the dispatch issues (the acknowledgment send in RxPayload, the
\* acknowledgment receive in Tx_Done) are accepted and leave them as they are,
\* and no interrupt changes pktbuf, so that through a whole non-broadcast send
\* or receive cycle pktbuf is the buffer of the caller's data frame.
C13_AckCallsKeepBookkeeping ==
    /\ [](\A w \in {mpipe_txndef(W, b, MPIPE_Ack) :
                       b \in {d \in DOMAIN mem : TotalLength(mem[d]) <= Len(mem[d])}}
                   \cup {mpipe_rxndef(W, b, MPIPE_Ack) : b \in DOMAIN mem} :
             /\ w.rets[1] # -1
             /\ w.mpipe.pktbuf = mpipe.pktbuf
             /\ w.mpipe.pktlen = mpipe.pktlen
             /\ w.mpipe.priority = mpipe.priority)
    /\ [][last' \in {"dma_isr", "uart_isr"} =>
            /\ mpipe'.pktbuf = mpipe.pktbuf
            /\ (/\ mpipe.state \in {MPIPE_RxPayload, MPIPE_Tx_Done}
                /\ mpipe.priority # MPIPE_Broadcast) =>
                  /\ Len(iret') = 1
                  /\ iret'[1] = (IF mpipe.state = MPIPE_Tx_Done THEN 0 ELSE AckBytes)
                  /\ mpipe'.pktlen = mpipe.pktlen
                  /\ mpipe'.priority = mpipe.priority
                  /\ dma'.en /\ dma'.buf = ACKBUF]_vars

\* the acknowledgment receive of a send of buffer b2 has been armed
C13_Witness ==
    /\ last = "uart_isr"
    /\ mpipe.state = MPIPE_RxAck
    /\ iret = <<0>>
    /\ dma.buf = ACKBUF
    /\ mpipe.pktbuf = "b2"
    /\ mpipe.pktlen = HeaderBytes + MaxPayload

\* the acknowledgment send of a receive into buffer b2 has been armed
C13_WitnessAckSend ==
    /\ last = "dma_isr"
    /\ mpipe.state = MPIPE_TxAck_Wait
    /\ iret = <<AckBytes>>
    /\ dma.buf = ACKBUF
    /\ mpipe.pktbuf = "b2"

C14_FirstReception ==
    mpipe.state = MPIPE_RxPayload =>
       /\ mpipe.pktlen = TotalLength(mem[mpipe.pktbuf])
       /\ dma = [en |-> dma.en, dir |-> "rx", buf |-> mpipe.pktbuf, off |-> HeaderBytes,
                 sz |-> Get(mem[mpipe.pktbuf], 2) + MPIPE_FOOTERBYTES]

C16_WaitStatesLeftByTransceiver ==
    [][(mpipe.state \in {MPIPE_Tx_Wait, MPIPE_TxAck_Wait}) =>
          /\ last' = "uart_isr" =>
                /\ mpipe' = [mpipe EXCEPT !.state =
                                IF mpipe.state = MPIPE_Tx_Wait THEN MPIPE_Tx_Done
                                ELSE MPIPE_TxAck_Done]
                /\ fired' = <<>> /\ iret' = <<>>
                /\ UNCHANGED <<mem, dma, uart>>
          /\ last' = "dma_isr" =>
                /\ mpipe' = mpipe
                /\ fired' = <<>> /\ iret' = <<>>
                /\ mem' = mem
                /\ uart'.txie]_vars

C16_Witness ==
    /\ last = "uart_isr"
    /\ mpipe.state = MPIPE_TxAck_Done
    /\ uart.txie
    /\ fired = <<>>

C16_WitnessSend ==
    /\ last = "uart_isr"
    /\ mpipe.state = MPIPE_Tx_Done
    /\ uart.txie

\* C18: in a non-broadcast receive rxdone fires only after an acknowledgment
\* with status byte 0 has been sent (the cycle went through TxAck_Wait and
\* TxAck_Done) for a frame whose checksum over pktlen bytes is 0; rxdone never
\* fires for a frame whose checksum is not 0.
C18_ReceiveCompleteMeansVerified ==
    (/\ Count(fired, "rxdone") > 0
     /\ cyc.prio # MPIPE_Broadcast) =>
        /\ cyc.op = "rx"
        /\ last = "uart_isr"
        /\ cyc.path = <<MPIPE_Idle, MPIPE_RxPayload, MPIPE_TxAck_Wait,
                        MPIPE_TxAck_Done, MPIPE_Idle>>
        /\ Get(mem[ACKBUF], 5) = 0
        /\ platform_crc_block(mem[ACKBUF], AckBytes) = 0
        /\ platform_crc_block(mem[mpipe.pktbuf], mpipe.pktlen) = 0

C18_Witness ==
    /\ fired = <<"rxdone">>
    /\ cyc.prio = MPIPE_Low
    /\ mpipe.pktbuf = "b2"
    /\ mpipe.pktlen = HeaderBytes + MaxPayload + MPIPE_FOOTERBYTES
    /\ mpipe.state = MPIPE_Idle

C20_FooterRoundTrip ==
    [][\A a \in OwnerArgs :
          (mpipe.state = MPIPE_Idle /\ Txndef(a[1], a[2], a[3])) =>
             /\ SubSeq(mem'[a[1]], 1, mpipe'.pktlen) = SubSeq(mem[a[1]], 1, mpipe'.pktlen)
             /\ Get(mem'[a[1]], mpipe'.pktlen) * 256 + Get(mem'[a[1]], mpipe'.pktlen + 1)
                   = mpipe.sequence
             /\ platform_crc_block(mem'[a[1]], mpipe'.pktlen + MPIPE_FOOTERBYTES) = 0
             /\ AckStatus(platform_crc_block(mem'[a[1]],
                                             mpipe'.pktlen + MPIPE_FOOTERBYTES)) = 0]_vars

\* a frame with a payload sent under the sequence id 65535
C20_Witness ==
    /\ last = "txndef"
    /\ mpipe.state = MPIPE_Tx_Wait
    /\ mpipe.sequence = Mod16 - 1
    /\ mpipe.pktbuf = "b2"
    /\ mpipe.pktlen = HeaderBytes + MaxPayload
    /\ platform_crc_block(mem["b2"], mpipe.pktlen + MPIPE_FOOTERBYTES) = 0

\* C17: two nodes back to back, A sending non-broadcast data frames and B
\* receiving them: whenever txdone has fired at A for a frame, B has accepted
\* that frame: B found its checksum 0 and rxdone has fired at B, or fires once
\* the ACK that B is sending has gone; A never reports a frame complete that
\* B answered with a NACK.
C17_CompletionMeansAccepted ==
    Count(pair.A.sig, "txdone") <=
        Count(pair.B.sig, "rxdone")
        + (IF /\ pair.B.mpipe.state \in {MPIPE_TxAck_Wait, MPIPE_TxAck_Done}
              /\ Get(pair.B.mem[ACKBUF], 5) = 0
           THEN 1 ELSE 0)

====
